---- MODULE Spec2Model ----
(***************************************************************************)
(* A model of the vantage-point tree of src/src/vptree.rs: construction    *)
(* (VPTree::new), the eager rebuild run by insert and extend (rebalance),  *)
(* the flat node / leaf storage with its index arithmetic, and the three   *)
(* branch-and-bound queries.                                               *)
(*                                                                         *)
(* Item is instantiated with the points 0..MaxCoord of a line and the      *)
(* distance calculator with |a - b|, a metric.  Distance is an unsigned    *)
(* type whose max_value() is DistanceMaxValue.  usize arithmetic is done   *)
(* over the integers; a subtraction that would go below zero is reported   *)
(* as an overflow, which panics in a build with overflow checks and wraps  *)
(* in a build without them.                                                *)
(***************************************************************************)
EXTENDS Integers, Sequences, FiniteSets, TLC

\* ---------------------------------------------------------------- bounds
MaxCoord == 2       \* items and needles are the points 0..MaxCoord
MaxItems == 5       \* most items a tree holds
MaxExtend == 2      \* most items one extend call adds
MaxBurst == 2       \* most insert and extend calls in a recorded burst
MaxCount == 100     \* item counts 0..MaxCount are followed one by one, and
MaxPower == 26      \* the item counts within 2 of 2^e, up to e = MaxPower


\* ------------------------------------------------------ program constants
FLAT_ARRAY_SIZE == 3
DistanceMaxValue == 255
F32_MANTISSA_DIGITS == 24      \* significant binary digits of an f32

Item == 0 .. MaxCoord

distance_calculator(a, b) == IF a < b THEN b - a ELSE a - b

\* ----------------------------------------------------------- arithmetic
RECURSIVE Pow2(_)
Pow2(d) == IF d = 0 THEN 1 ELSE 2 * Pow2(d - 1)

RECURSIVE is_power_of_two(_)
is_power_of_two(n) ==
    IF n <= 1 THEN n = 1
    ELSE IF n % 2 # 0 THEN FALSE
    ELSE is_power_of_two(n \div 2)

\* The larger of the two, where the code takes the smaller.
Max(a, b) == IF a < b THEN b ELSE a

Min(a, b) == IF a < b THEN a ELSE b

\* The number of binary digits of n.
RECURSIVE BitLen(_)
BitLen(n) == IF n = 0 THEN 0 ELSE 1 + BitLen(n \div 2)

\* n as f32: the nearest number with F32_MANTISSA_DIGITS significant binary
\* digits, a tie going to the one whose last digit is even.
AsF32(n) ==
    LET shift == BitLen(n) - F32_MANTISSA_DIGITS
        unit == Pow2(shift)
        kept == n \div unit
        rest == n % unit
        up == 2 * rest > unit \/ (2 * rest = unit /\ kept % 2 = 1)
    IN  IF shift <= 0 THEN n ELSE (IF up THEN kept + 1 ELSE kept) * unit

\* (x / (FLAT_ARRAY_SIZE + 1) as f32).log2().ceil() as usize, for an f32 x
\* that holds a whole number: the least d with x / (FLAT_ARRAY_SIZE + 1) <=
\* 2^d.  The division by FLAT_ARRAY_SIZE + 1 = 4 is exact in f32, log2 is
\* taken to be exact at the powers of two and to fall strictly between whole
\* numbers elsewhere, and the cast of a negative float saturates at 0.
RECURSIVE DepthFrom(_, _)
DepthFrom(x, d) ==
    IF x <= Pow2(d) * (FLAT_ARRAY_SIZE + 1) THEN d ELSE DepthFrom(x, d + 1)

\* Depth with one more than items.len() + 1 under the logarithm.
DepthOffByOne(n) == DepthFrom(AsF32(n + 2), 0)

\* depth, as new and rebalance compute it from n = items.len():
\* ((n + 1) as f32 / (FLAT_ARRAY_SIZE + 1) as f32).log2().ceil() as usize
Depth(n) == DepthFrom(AsF32(n + 1), 0)

\* The division of rebalance without its ceil().
CeilDivRoundsDown(a, b) == a \div b

\* ((a as f32) / (b as f32)).ceil() as usize, for a >= 0 and b > 0
CeilDiv(a, b) == (a + b - 1) \div b

\* -------------------------------------------------------------- slices
RemoveAt(s, i) == SubSeq(s, 1, i - 1) \o SubSeq(s, i + 1, Len(s))

RECURSIVE Perms(_)
Perms(s) ==
    IF s = << >> THEN { << >> }
    ELSE UNION { { << s[i] >> \o p : p \in Perms(RemoveAt(s, i)) } : i \in 1 .. Len(s) }

RECURSIVE Flatten(_)
Flatten(q) == IF q = << >> THEN << >> ELSE Head(q) \o Flatten(Tail(q))

\* The subsequence of s at the positions in idx, in order.
RECURSIVE Pick(_, _, _)
Pick(s, idx, i) ==
    IF i > Len(s) THEN << >>
    ELSE IF i \in idx THEN << s[i] >> \o Pick(s, idx, i + 1)
    ELSE Pick(s, idx, i + 1)

\* select_nth_unstable_by that leaves the slice as it finds it.
SelectNthUnordered(vantage_point, items, split_point) == { items }

\* items.select_nth_unstable_by(split_point, by distance to vantage_point):
\* the slice is reordered so that the element at split_point is the one a
\* sort would put there, nothing before it is farther and nothing after it
\* is nearer.  The order inside the two parts is not specified, so every
\* such reordering is an outcome: any split_point elements (near) that are
\* no farther than the pivot, in any order, then the pivot, then the others
\* (none nearer than the pivot), in any order.  The caller guarantees
\* split_point < items.len().
SelectNth(vantage_point, items, split_point) ==
    LET all == 1 .. Len(items)
        d(i) == distance_calculator(vantage_point, items[i])
        splits == { << near, pivot >> \in (SUBSET all) \X all :
                      /\ Cardinality(near) = split_point
                      /\ pivot \notin near
                      /\ \A i \in near : d(i) <= d(pivot)
                      /\ \A i \in all \ near : d(i) >= d(pivot) }
    IN  UNION { { n \o << items[sp[2]] >> \o f :
                    n \in Perms(Pick(items, sp[1], 1)),
                    f \in Perms(Pick(items, all \ (sp[1] \cup { sp[2] }), 1)) }
                : sp \in splits }

\* ------------------------------------------------------------ the build
\* A wrapped usize that is larger than every length of the model.
Huge == -1

\* ideal_size = (ideal_size - 1) / 2 in usize
HalveIdeal(ideal_size) ==
    IF ideal_size = Huge \/ ideal_size = 0 THEN Huge ELSE (ideal_size - 1) \div 2

Node(vantage_point, radius) == [vantage_point |-> vantage_point, radius |-> radius]

BuildPanic == [nodes |-> << >>, queue |-> << >>, overflowed |-> FALSE, panicked |-> TRUE]

\* One turn of the build loop once split_point is known: the front slice is
\* popped, its last element is the vantage point, the others are measured
\* against it and split at split_point by select_nth_unstable_by, the near
\* and the far part are queued and the node is pushed.  The value is the set
\* of <<queue, nodes>> the turn can leave.
SplitFront(queue, nodes, split_point) ==
    LET slice == Head(queue)
        vantage_point == slice[Len(slice)]
        items == SubSeq(slice, 1, Len(slice) - 1)
    IN  { << Tail(queue) \o << SubSeq(p, 1, split_point),
                               SubSeq(p, split_point + 1, Len(p)) >>,
             Append(nodes, Node(vantage_point,
                                distance_calculator(vantage_point, p[split_point + 1]))) >>
          : p \in SelectNth(vantage_point, items, split_point) }

\* The while loop of VPTree::new.  The value is the set of outcomes: the
\* nodes pushed and the slices left in the queue.
RECURSIVE NewLoop(_, _, _, _, _, _)
NewLoop(queue, nodes, ideal_size_low, ideal_size_high, nodes_len, overflowed) ==
    IF Len(nodes) >= nodes_len
    THEN { [nodes |-> nodes, queue |-> queue, overflowed |-> overflowed, panicked |-> FALSE] }
    ELSE
      LET halve == is_power_of_two(Len(queue))
          low == IF halve THEN HalveIdeal(ideal_size_low) ELSE ideal_size_low
          high == IF halve THEN HalveIdeal(ideal_size_high) ELSE ideal_size_high
          items_len == Len(Head(queue)) - 1            \* items.items_len()
          underflow == low = Huge \/ items_len < low   \* items.items_len() - ideal_size_low
          split_point == IF underflow THEN high
                         ELSE IF high = Huge THEN items_len - low
                         ELSE Min(items_len - low, high)
          over == \/ overflowed
                  \/ underflow
                  \/ (halve /\ (ideal_size_low = 0 \/ ideal_size_high = 0))
      IN  IF queue = << >> \/ Head(queue) = << >>
          THEN { BuildPanic }      \* pop_front().unwrap() / split_last_mut().unwrap()
          ELSE IF split_point = Huge \/ split_point >= items_len
          THEN { [BuildPanic EXCEPT !.overflowed = over] }   \* select_nth_unstable_by panics
          ELSE UNION { NewLoop(qn[1], qn[2], low, high, nodes_len, over)
                       : qn \in SplitFront(queue, nodes, split_point) }

\* The while loop of rebalance.
RECURSIVE RebalanceLoop(_, _, _, _, _, _, _)
RebalanceLoop(queue, nodes, ideal_size_in, level_in, depth, nodes_len, overflowed) ==
    IF Len(nodes) >= nodes_len
    THEN { [nodes |-> nodes, queue |-> queue, overflowed |-> overflowed, panicked |-> FALSE] }
    ELSE
      LET halve == is_power_of_two(Len(queue))
          ideal_size == IF halve THEN HalveIdeal(ideal_size_in) ELSE ideal_size_in
          level == IF halve THEN level_in + 1 ELSE level_in
          items_len == Len(Head(queue)) - 1                      \* items.items_len()
          underflow == ideal_size = Huge \/ items_len < ideal_size   \* items.items_len() - ideal_size
          high == IF ideal_size = Huge THEN Huge ELSE ideal_size + Pow2(depth - level)
          split_point == IF underflow THEN high ELSE Min(items_len - ideal_size, high)
          over == overflowed \/ underflow \/ (halve /\ ideal_size_in = 0)
      IN  IF queue = << >> \/ Head(queue) = << >>
          THEN { BuildPanic }      \* pop_front().unwrap() / split_last_mut().unwrap()
          ELSE IF level > depth
          THEN { [BuildPanic EXCEPT !.overflowed = TRUE] }   \* depth - level, then 2usize.pow
          ELSE IF split_point = Huge \/ split_point >= items_len
          THEN { [BuildPanic EXCEPT !.overflowed = over] }   \* select_nth_unstable_by panics
          ELSE UNION { RebalanceLoop(qn[1], qn[2], ideal_size, level, depth, nodes_len, over)
                       : qn \in SplitFront(queue, nodes, split_point) }

\* The fields of a VPTree, with what happened while they were computed and
\* the slices the build left in its queue, which leaves concatenates.
Tree(nodes, queue, leaf_size, decrementation_point, depth, overflowed, panicked) ==
    [nodes |-> nodes, queue |-> queue, leaves |-> Flatten(queue), leaf_size |-> leaf_size,
     decrementation_point |-> decrementation_point, depth |-> depth,
     overflowed |-> overflowed, panicked |-> panicked]

\* VPTree::new(items, distance_calculator): the set of trees it can return.
New(items) ==
    LET depth == Depth(Len(items))
        leaves_len == Pow2(depth)
        nodes_len == leaves_len - 1
        leaf_size == Len(items) \div leaves_len
        \* leaf_size - 1 goes below zero when leaf_size = 0; computed over the
        \* integers the wrapped results agree modulo the word size.
        ideal_size_low == nodes_len + leaves_len * (leaf_size - 1)
        ideal_size_high == nodes_len + leaves_len * leaf_size
        decrementation_point == Len(items) - ideal_size_low
        over == leaf_size = 0 \/ Len(items) < ideal_size_low
    IN  { Tree(b.nodes, b.queue, leaf_size, decrementation_point, depth,
               b.overflowed \/ over, b.panicked)
          : b \in NewLoop(<< items >>, << >>,
                            IF ideal_size_low < 0 THEN Huge ELSE ideal_size_low,
                            ideal_size_high, nodes_len, FALSE) }

\* FirstShort with the test leaf.len() <= self.leaf_size.
FirstShortOrEqual(queue, leaf_size, leaves_len) ==
    IF \E i \in 1 .. Len(queue) : Len(queue[i]) <= leaf_size
    THEN (CHOOSE i \in 1 .. Len(queue) :
             /\ Len(queue[i]) <= leaf_size
             /\ \A j \in 1 .. i - 1 : Len(queue[j]) > leaf_size) - 1
    ELSE leaves_len

\* The index of the first slice of the queue shorter than leaf_size, or
\* leaves_len when there is none.
FirstShort(queue, leaf_size, leaves_len) ==
    IF \E i \in 1 .. Len(queue) : Len(queue[i]) < leaf_size
    THEN (CHOOSE i \in 1 .. Len(queue) :
             /\ Len(queue[i]) < leaf_size
             /\ \A j \in 1 .. i - 1 : Len(queue[j]) >= leaf_size) - 1
    ELSE leaves_len

\* rebalance() that rebuilds from the leaves alone and forgets the vantage
\* points.
RebalanceLeavesOnly(old_nodes, old_leaves) ==
    LET items == old_leaves
        depth == Depth(Len(items))
        leaves_len == Pow2(depth)
        nodes_len == leaves_len - 1
        short == Len(items) < nodes_len
        leaf_size == IF short THEN 0 ELSE CeilDiv(Len(items) - nodes_len, leaves_len)
        ideal_size == nodes_len + (nodes_len + 1) * (leaf_size - 1)
    IN  IF short
        THEN { Tree(<< >>, << >>, 0, 0, depth, TRUE, TRUE) }
        ELSE { Tree(b.nodes, b.queue, leaf_size,
                    FirstShort(b.queue, leaf_size, leaves_len), depth,
                    b.overflowed \/ leaf_size = 0, b.panicked)
               : b \in RebalanceLoop(<< items >>, << >>,
                                     IF ideal_size < 0 THEN Huge ELSE ideal_size,
                                     0, depth, nodes_len, FALSE) }

\* rebalance(), run on a tree whose vantage points are old_nodes and whose
\* leaf array is old_leaves: the set of trees it can leave.
Rebalance(old_nodes, old_leaves) ==
    LET items == [i \in 1 .. Len(old_nodes) |-> old_nodes[i].vantage_point] \o old_leaves
        depth == Depth(Len(items))
        leaves_len == Pow2(depth)
        nodes_len == leaves_len - 1
        \* items.len() - nodes_len cannot be taken when it is negative
        short == Len(items) < nodes_len
        leaf_size == IF short THEN 0 ELSE CeilDiv(Len(items) - nodes_len, leaves_len)
        \* leaf_size - 1 goes below zero when leaf_size = 0; computed over the
        \* integers the wrapped results agree modulo the word size.
        ideal_size == nodes_len + (nodes_len + 1) * (leaf_size - 1)
    IN  IF short
        THEN { Tree(<< >>, << >>, 0, 0, depth, TRUE, TRUE) }
        ELSE { Tree(b.nodes, b.queue, leaf_size,
                    FirstShort(b.queue, leaf_size, leaves_len), depth,
                    b.overflowed \/ leaf_size = 0, b.panicked)
               : b \in RebalanceLoop(<< items >>, << >>,
                                     IF ideal_size < 0 THEN Huge ELSE ideal_size,
                                     0, depth, nodes_len, FALSE) }

\* ---------------------------------------------------------------- state
VARIABLES
    nodes,                 \* Vec<Node>: the internal nodes, root first
    leaves,                \* Vec<Item>: the leaf groups, concatenated
    leaf_size,             \* width of the larger leaf groups
    decrementation_point,  \* number of leading groups of width leaf_size
    depth,                 \* number of layers of internal nodes
    panicked,              \* a call has panicked: the program is gone
    overflow_wraps,        \* a usize overflow has been seen to wrap: the build
                           \* has no overflow checks
    call,                  \* the query that has just answered, if any
    result,                \* its answer, until the caller has taken it
    counted,               \* whether this run keeps the two records below
    history,               \* the calls made since construction, each with the
                           \* number of rebalance() runs when it ended
    rebuilds,              \* runs of rebalance() since construction
    supplied,              \* items handed over so far, to new, insert and extend
    queue,                 \* the slices the last build left in its queue, one
                           \* per leaf group
    added,                 \* the items handed to insert or extend, when that
                           \* was the last call
    walk,                  \* the traversal of the query in progress, when the
                           \* query is followed step by step
    build                  \* the locals of the build in progress, when new and
                           \* rebalance are followed turn by turn

tree == << nodes, leaves, leaf_size, decrementation_point, depth >>
vars == << nodes, leaves, leaf_size, decrementation_point, depth, panicked,
           overflow_wraps, call, result, counted, history, rebuilds, supplied, queue,
           added, walk, build >>

\* len() that forgets the vantage points held in nodes.
LenOfLeaves == Len(leaves)

\* &self: the tree as the queries read it.
Self ==
    [nodes |-> nodes, leaves |-> leaves, leaf_size |-> leaf_size,
     decrementation_point |-> decrementation_point, depth |-> depth]

\* len()
len == Len(nodes) + Len(leaves)

\* What the tree holds, vantage points first: the items a scan would visit.
StoredItems == [i \in 1 .. Len(nodes) |-> nodes[i].vantage_point] \o leaves

\* The item at a tree position: a node's vantage point, or a leaf item.
ItemAt(self, index) ==
    IF index < Len(self.nodes) THEN self.nodes[index + 1].vantage_point
    ELSE self.leaves[index - Len(self.nodes) + 1]

\* -------------------------------------------------------------- queries
\* sort_by with the comparator "Less if a.0 < b.0, else Greater": the
\* insertion sort the standard library runs on short slices, which moves an
\* entry left only past entries it is strictly less than.
RECURSIVE InsertByDistance(_, _)
InsertByDistance(sorted, x) ==
    IF sorted = << >> \/ ~(x[1] < sorted[Len(sorted)][1])
    THEN Append(sorted, x)
    ELSE Append(InsertByDistance(SubSeq(sorted, 1, Len(sorted) - 1), x),
                sorted[Len(sorted)])

\* The insertion sort, entry by entry.
RECURSIVE InsertionSort(_)
InsertionSort(s) ==
    IF s = << >> THEN << >>
    ELSE InsertByDistance(InsertionSort(SubSeq(s, 1, Len(s) - 1)), s[Len(s)])

\* The place the insertion sort gives entry i of s: behind the entries of
\* smaller distance and behind the earlier entries of the same distance.
SortedPlace(s, i) ==
    1 + Cardinality({ j \in DOMAIN s :
                        \/ s[j][1] < s[i][1]
                        \/ s[j][1] = s[i][1] /\ j < i })

\* sort_by with that comparator: what InsertionSort(s) computes, written
\* without recursion.
SortByDistance(s) ==
    [p \in DOMAIN s |-> s[CHOOSE i \in DOMAIN s : SortedPlace(s, i) = p]]

\* binary_search_by with the comparator "Less if neighbor_distance <
\* distance, else Greater", which never answers Equal: Err(x) with x the
\* first position whose entry is not less than distance.
BinarySearchBy(list, distance) ==
    IF \E i \in 1 .. Len(list) : ~(list[i][1] < distance)
    THEN (CHOOSE i \in 1 .. Len(list) :
             /\ ~(list[i][1] < distance)
             /\ \A j \in 1 .. i - 1 : list[j][1] < distance) - 1
    ELSE Len(list)

\* Vec::insert(index, element)
InsertAt(list, index, x) ==
    SubSeq(list, 1, index) \o << x >> \o SubSeq(list, index + 1, Len(list))

\* The running answer of a query.  best: the nearest <<distance, position>>
\* so far (find_nearest_neighbor); list: the <<distance, position>> pairs
\* kept (the other two queries).
Acc(best, list, acc_panicked) == [best |-> best, list |-> list, panicked |-> acc_panicked]

AccInit == Acc(<< DistanceMaxValue, 0 >>, << >>, FALSE)

\* The queries' arguments.
NearestQuery(needle) == [op |-> "nearest", needle |-> needle, k |-> 0, threshold |-> 0]
KNearestQuery(needle, k) == [op |-> "k_nearest", needle |-> needle, k |-> k, threshold |-> 0]
RadiusQuery(needle, threshold) ==
    [op |-> "radius", needle |-> needle, k |-> 0, threshold |-> threshold]

\* consider_item that puts an admitted candidate in the place of the last
\* entry instead of the place the binary search gives.
ConsiderItemReplacesLast(index, distance, acc, k) ==
    IF Len(acc.list) < k
    THEN LET pushed == Append(acc.list, << distance, index >>)
         IN  [acc EXCEPT !.list = IF Len(pushed) = k THEN SortByDistance(pushed) ELSE pushed]
    ELSE IF acc.list = << >>
    THEN [acc EXCEPT !.panicked = TRUE]
    ELSE IF distance < acc.list[Len(acc.list)][1]
    THEN [acc EXCEPT !.list = Append(SubSeq(acc.list, 1, Len(acc.list) - 1),
                                     << distance, index >>)]
    ELSE acc

\* consider_item of find_k_nearest_neighbors; the list's capacity is k.
consider_item(index, distance, acc, k) ==
    IF Len(acc.list) < k
    THEN LET pushed == Append(acc.list, << distance, index >>)
         IN  [acc EXCEPT !.list = IF Len(pushed) = k THEN SortByDistance(pushed) ELSE pushed]
    ELSE IF acc.list = << >>
    THEN [acc EXCEPT !.panicked = TRUE]          \* last().unwrap() on an empty list
    ELSE IF distance < acc.list[Len(acc.list)][1]
    THEN LET popped == SubSeq(acc.list, 1, Len(acc.list) - 1)
         IN  [acc EXCEPT !.list = InsertAt(popped, BinarySearchBy(popped, distance),
                                           << distance, index >>)]
    ELSE acc

\* Consider with the radius test written as distance < threshold.
ConsiderStrictRadius(q, acc, index, distance) ==
    CASE q.op = "nearest" ->
           IF distance < acc.best[1] THEN [acc EXCEPT !.best = << distance, index >>] ELSE acc
      [] q.op = "k_nearest" -> consider_item(index, distance, acc, q.k)
      [] q.op = "radius" ->
           IF distance < q.threshold
           THEN [acc EXCEPT !.list = Append(acc.list, << distance, index >>)]
           ELSE acc

\* What each query does with an item at tree position index, at the given
\* distance from the needle.
Consider(q, acc, index, distance) ==
    CASE q.op = "nearest" ->
           IF distance < acc.best[1] THEN [acc EXCEPT !.best = << distance, index >>] ELSE acc
      [] q.op = "k_nearest" -> consider_item(index, distance, acc, q.k)
      [] q.op = "radius" ->
           IF distance <= q.threshold
           THEN [acc EXCEPT !.list = Append(acc.list, << distance, index >>)]
           ELSE acc

\* The test made on an entry popped from the unexplored stack: TRUE when the
\* branch is entered.  find_k_nearest_neighbors reads the last entry of its
\* list first, which panics on an empty list.
EnterPanics(q, acc) == q.op = "k_nearest" /\ acc.list = << >>

\* Enter with the comparison of find_nearest_neighbor turned around.
EnterReversedNearest(q, acc, distance_to_boundary) ==
    CASE q.op = "nearest" -> acc.best[1] < distance_to_boundary
      [] q.op = "k_nearest" ->
           \/ acc.list[Len(acc.list)][1] > distance_to_boundary
           \/ Len(acc.list) < q.k
      [] q.op = "radius" -> q.threshold >= distance_to_boundary

\* Enter with the test of find_neighbors_within_radius written as
\* threshold > distance_to_boundary.
EnterStrictRadius(q, acc, distance_to_boundary) ==
    CASE q.op = "nearest" -> acc.best[1] > distance_to_boundary
      [] q.op = "k_nearest" ->
           \/ acc.list[Len(acc.list)][1] > distance_to_boundary
           \/ Len(acc.list) < q.k
      [] q.op = "radius" -> q.threshold > distance_to_boundary

\* Enter without the "list not yet full" half of the test of
\* find_k_nearest_neighbors.
EnterFullListOnly(q, acc, distance_to_boundary) ==
    CASE q.op = "nearest" -> acc.best[1] > distance_to_boundary
      [] q.op = "k_nearest" -> acc.list[Len(acc.list)][1] > distance_to_boundary
      [] q.op = "radius" -> q.threshold >= distance_to_boundary

Enter(q, acc, distance_to_boundary) ==
    CASE q.op = "nearest" -> acc.best[1] > distance_to_boundary
      [] q.op = "k_nearest" ->
           \/ acc.list[Len(acc.list)][1] > distance_to_boundary
           \/ Len(acc.list) < q.k
      [] q.op = "radius" -> q.threshold >= distance_to_boundary

\* LeafRange with the groups up to and including decrementation_point taken
\* for the wider ones.
LeafRangeInclusive(self, index) ==
    LET group == index - Len(self.nodes)
    IN  IF group <= self.decrementation_point
        THEN [start |-> group * self.leaf_size,
              end |-> group * self.leaf_size + self.leaf_size, overflowed |-> FALSE]
        ELSE LET start == (group - self.decrementation_point) * (self.leaf_size - 1)
                             + self.decrementation_point * self.leaf_size
             IN  [start |-> start, end |-> start + self.leaf_size - 1,
                  overflowed |-> self.leaf_size = 0]

\* The range of the leaf array that holds the leaf group at tree position
\* index (index >= self.nodes.len()), as the queries compute it.
LeafRange(self, index) ==
    LET group == index - Len(self.nodes)
    IN  IF group < self.decrementation_point
        THEN [start |-> group * self.leaf_size,
              end |-> group * self.leaf_size + self.leaf_size, overflowed |-> FALSE]
        ELSE LET start == (group - self.decrementation_point) * (self.leaf_size - 1)
                             + self.decrementation_point * self.leaf_size
             IN  [start |-> start, end |-> start + self.leaf_size - 1,
                  overflowed |-> self.leaf_size = 0]

\* The for loop over a leaf group: every item of the range is considered,
\* in order, under its tree position.
RECURSIVE ScanRange(_, _, _, _, _)
ScanRange(self, q, acc, position, end) ==
    IF position >= end \/ acc.panicked THEN acc
    ELSE ScanRange(self, q,
                   Consider(q, acc, position + Len(self.nodes),
                            distance_calculator(q.needle, self.leaves[position + 1])),
                   position + 1, end)

ScanLeaf(self, q, acc, index) ==
    LET r == LeafRange(self, index)
    IN  IF r.overflowed \/ r.start > r.end \/ r.end > Len(self.leaves)
        THEN [acc EXCEPT !.panicked = TRUE]      \* the slice index is out of range
        ELSE ScanRange(self, q, acc, r.start, r.end)

\* The traversal shared by the three queries.  Walk is the body of the
\* outer while loop at tree position index; PopLoop is the inner loop that
\* pops the unexplored stack once a leaf group has been scanned.
RECURSIVE Walk(_, _, _, _, _)
RECURSIVE PopLoop(_, _, _, _)
Walk(self, q, index, unexplored, acc) ==
    IF acc.panicked THEN acc
    ELSE IF index < Len(self.nodes)
    THEN LET node == self.nodes[index + 1]
             distance == distance_calculator(q.needle, node.vantage_point)
             considered == Consider(q, acc, index, distance)
         IN  IF distance < node.radius
             THEN Walk(self, q, 2 * index + 1,
                       Append(unexplored, << 2 * index + 2, node.radius - distance >>),
                       considered)
             ELSE Walk(self, q, 2 * index + 2,
                       Append(unexplored, << 2 * index + 1, distance - node.radius >>),
                       considered)
    ELSE PopLoop(self, q, unexplored, ScanLeaf(self, q, acc, index))

PopLoop(self, q, unexplored, acc) ==
    IF acc.panicked \/ unexplored = << >> THEN acc
    ELSE LET potential_index == unexplored[Len(unexplored)][1]
             distance_to_boundary == unexplored[Len(unexplored)][2]
             rest == SubSeq(unexplored, 1, Len(unexplored) - 1)
         IN  IF EnterPanics(q, acc) THEN [acc EXCEPT !.panicked = TRUE]
             ELSE IF Enter(q, acc, distance_to_boundary)
             THEN IF potential_index < Len(self.nodes)
                  THEN Walk(self, q, potential_index, rest, acc)
                  ELSE PopLoop(self, q, rest, ScanLeaf(self, q, acc, potential_index))
             ELSE PopLoop(self, q, rest, acc)

\* The <<distance, item>> pairs returned for a list of <<distance, position>>.
Collect(self, list) == [i \in 1 .. Len(list) |-> << list[i][1], ItemAt(self, list[i][2]) >>]

Answer(pairs, answer_panicked) == [pairs |-> pairs, panicked |-> answer_panicked]

\* find_nearest_neighbor(&self, needle): None is the empty sequence, Some(pair) the
\* sequence of that pair.
find_nearest_neighbor(self, needle) ==
    LET acc == Walk(self, NearestQuery(needle), 0, << >>, AccInit)
    IN  IF acc.panicked THEN Answer(<< >>, TRUE)
        ELSE IF acc.best[1] < DistanceMaxValue
        THEN Answer(Collect(self, << acc.best >>), FALSE)
        ELSE Answer(<< >>, FALSE)

\* find_k_nearest_neighbors(self, needle, k)
find_k_nearest_neighbors(self, needle, k) ==
    LET acc == Walk(self, KNearestQuery(needle, k), 0, << >>, AccInit)
    IN  IF acc.panicked THEN Answer(<< >>, TRUE) ELSE Answer(Collect(self, acc.list), FALSE)

\* find_neighbors_within_radius(self, needle, threshold)
find_neighbors_within_radius(self, needle, threshold) ==
    LET acc == Walk(self, RadiusQuery(needle, threshold), 0, << >>, AccInit)
    IN  IF acc.panicked THEN Answer(<< >>, TRUE)
        ELSE Answer(Collect(self, SortByDistance(acc.list)), FALSE)

\* -------------------------------------------------------------- actions
SeqsUpTo(n) == UNION { [1 .. m -> Item] : m \in 0 .. n }

\* No query has an answer waiting for the caller.
NoCall == [op |-> "none", needle |-> 0, k |-> 0, threshold |-> 0]

\* No query is being followed step by step.
NoWalk ==
    [q |-> NoCall, phase |-> "idle", index |-> 0, position |-> 0, end |-> 0,
     unexplored |-> << >>, acc |-> AccInit, log |-> << >>, offered |-> << >>]

\* No build is being followed turn by turn.
NoBuild ==
    [op |-> "none", phase |-> "idle", ideal_size_low |-> 0, ideal_size_high |-> 0,
     level |-> 0, nodes_len |-> 0, overflowed |-> FALSE]

\* A usize overflow panics in a build with overflow checks and wraps in a
\* build without them.  wraps says which build this is; once an overflow has
\* wrapped, the build is known.
Builds(t, known_to_wrap) ==
    IF ~t.overflowed THEN { known_to_wrap }
    ELSE IF known_to_wrap THEN { TRUE }
    ELSE BOOLEAN

Crashed(t, wraps) == t.panicked \/ (t.overflowed /\ ~wraps)

\* The inputs of VPTree::new: sequences of at most MaxItems items, and
\* sequences of DeepItems items, the fewest that give two layers of nodes.
\* Given more than FLAT_ARRAY_SIZE items, new() reads its input as the last
\* item (the root's vantage point) and the multiset of the others, which
\* select_nth_unstable_by reorders; of those inputs the ones whose other
\* items are in ascending order stand for all.
DeepItems == 2 * FLAT_ARRAY_SIZE + 2

Canonical(n) == { s \in [1 .. n -> Item] : \A i \in 1 .. n - 2 : s[i] <= s[i + 1] }

\* The k asked of find_k_nearest_neighbors: from none to more than a tree
\* holds.
KValues == (0 .. MaxItems + 1) \cup { DeepItems + 1 }

NewInputs ==
    SeqsUpTo(Min(MaxItems, FLAT_ARRAY_SIZE))
      \cup UNION { Canonical(n) : n \in FLAT_ARRAY_SIZE + 1 .. MaxItems }
      \cup Canonical(DeepItems)

\* The state after VPTree::new(items, distance_calculator).
InitFrom(inputs, counting) ==
    \E items \in inputs : \E t \in New(items) : \E wraps \in Builds(t, FALSE) :
        /\ nodes = IF Crashed(t, wraps) THEN << >> ELSE t.nodes
        /\ leaves = IF Crashed(t, wraps) THEN << >> ELSE t.leaves
        /\ queue = IF Crashed(t, wraps) THEN << >> ELSE t.queue
        /\ leaf_size = IF Crashed(t, wraps) THEN 0 ELSE t.leaf_size
        /\ decrementation_point = IF Crashed(t, wraps) THEN 0 ELSE t.decrementation_point
        /\ depth = IF Crashed(t, wraps) THEN 0 ELSE t.depth
        /\ panicked = Crashed(t, wraps)
        /\ overflow_wraps = (t.overflowed /\ wraps)
        /\ call = NoCall
        /\ result = << >>
        /\ counted = counting
        /\ history = << >>
        /\ rebuilds = 0
        /\ supplied = Len(items)
        /\ added = << >>
        /\ walk = NoWalk
        /\ build = NoBuild

Init == InitFrom(NewInputs, FALSE)

\* The caller makes one call at a time: the next call starts once the
\* answer of the last query has been taken.
Idle == ~panicked /\ call = NoCall

\* The call op has ended, rebalance() having run `ran` times in it.
Record(op, ran) ==
    /\ rebuilds' = IF counted THEN rebuilds + ran ELSE rebuilds
    /\ history' = IF counted THEN Append(history, [op |-> op, rebuilds |-> rebuilds + ran])
                  ELSE history
    /\ UNCHANGED counted

\* rebalance(), run by insert and extend once self.leaves has grown by
\* `items`.
RunRebalance(items) ==
    \E t \in Rebalance(nodes, leaves \o items) : \E wraps \in Builds(t, overflow_wraps) :
       /\ nodes' = IF Crashed(t, wraps) THEN << >> ELSE t.nodes
       /\ leaves' = IF Crashed(t, wraps) THEN << >> ELSE t.leaves
       /\ queue' = IF Crashed(t, wraps) THEN << >> ELSE t.queue
       /\ leaf_size' = IF Crashed(t, wraps) THEN 0 ELSE t.leaf_size
       /\ decrementation_point' = IF Crashed(t, wraps) THEN 0 ELSE t.decrementation_point
       /\ depth' = IF Crashed(t, wraps) THEN 0 ELSE t.depth
       /\ panicked' = Crashed(t, wraps)
       /\ overflow_wraps' = (overflow_wraps \/ (t.overflowed /\ wraps))

\* insert that only buffers the item and leaves the rebuild for later.
InsertBuffered ==
    /\ Idle
    /\ len + 1 <= MaxItems
    /\ \E item \in Item : leaves' = Append(leaves, item) /\ added' = << item >>
    /\ supplied' = supplied + 1
    /\ Record("insert", 0)
    /\ UNCHANGED << nodes, leaf_size, decrementation_point, depth, panicked,
                    overflow_wraps, call, result, queue, walk, build >>

\* insert(item).  The trees of the model grow up to MaxItems items.
Insert ==
    /\ Idle
    /\ len + 1 <= MaxItems
    /\ \E item \in Item : RunRebalance(<< item >>) /\ added' = << item >>
    /\ supplied' = supplied + 1
    /\ Record("insert", 1)
    /\ UNCHANGED << call, result, walk, build >>

\* extend(items)
Extend ==
    /\ Idle
    /\ \E items \in SeqsUpTo(MaxExtend) :
          /\ items = << >> \/ len + Len(items) <= MaxItems
          /\ RunRebalance(items)
          /\ supplied' = supplied + Len(items)
          /\ added' = items
    /\ Record("extend", 1)
    /\ UNCHANGED << call, result, walk, build >>

\* A query that first rebuilds the tree, then answers.
QueryRebuilding(q, answer) ==
    /\ Idle
    /\ ~answer.panicked
    /\ call' = q
    /\ result' = answer.pairs
    /\ RunRebalance(<< >>)
    /\ Record(q.op, 1)
    /\ added' = << >>
    /\ UNCHANGED << supplied, walk, build >>

\* A query takes &self: it returns its answer, or panics, and writes nothing.
Query(q, answer) ==
    /\ Idle
    /\ call' = q
    /\ result' = answer.pairs
    /\ panicked' = answer.panicked
    /\ Record(q.op, 0)
    /\ added' = << >>
    /\ UNCHANGED << tree, overflow_wraps, supplied, queue, walk, build >>

FindNearestNeighbor ==
    \E needle \in Item : Query(NearestQuery(needle), find_nearest_neighbor(Self, needle))

FindKNearestNeighbors ==
    \E needle \in Item : \E k \in KValues :
        Query(KNearestQuery(needle, k), find_k_nearest_neighbors(Self, needle, k))

FindNeighborsWithinRadius ==
    \E needle \in Item : \E threshold \in 0 .. MaxCoord :
        Query(RadiusQuery(needle, threshold),
              find_neighbors_within_radius(Self, needle, threshold))

\* The caller takes the answer.
Return ==
    /\ ~panicked
    /\ call # NoCall
    /\ call' = NoCall
    /\ result' = << >>
    /\ walk' = NoWalk
    /\ UNCHANGED << tree, panicked, overflow_wraps, counted, history, rebuilds, supplied,
                    queue, added, build >>

Next ==
    \/ Insert
    \/ Extend
    \/ FindNearestNeighbor
    \/ FindKNearestNeighbors
    \/ FindNeighborsWithinRadius
    \/ Return

Spec == Init /\ [][Next]_vars

\* A burst of calls: a tree built from a few items, then at most MaxBurst
\* insert and extend calls, then one query; the calls are recorded in
\* history.
Mutating ==
    IF history = << >> THEN TRUE ELSE history[Len(history)].op \in { "insert", "extend" }

InitBurst == InitFrom(SeqsUpTo(MaxExtend), TRUE)

NextBurst ==
    \/ Mutating /\ Len(history) < MaxBurst /\ Insert
    \/ Mutating /\ Len(history) < MaxBurst /\ Extend
    \/ Mutating /\ FindNearestNeighbor
    \/ Mutating /\ FindKNearestNeighbors
    \/ Mutating /\ FindNeighborsWithinRadius
    \/ Return

SpecBurst == InitBurst /\ [][NextBurst]_vars

\* --------------------------------------------------------------- claims
\* What the claims are stated with: a scan of the stored items, by counting.
QueryOps == { "nearest", "k_nearest", "radius" }

\* The distance of a stored or returned item from the needle of the call.
FromNeedle(item) == distance_calculator(call.needle, item)

Count(x, s) == Cardinality({ i \in DOMAIN s : s[i] = x })

\* How many stored items lie within distance d of the needle.
NumWithin(d) == Cardinality({ i \in DOMAIN StoredItems : FromNeedle(StoredItems[i]) <= d })

\* The j-th smallest distance from the needle among the stored items.
KthSmallest(j) ==
    CHOOSE d \in 0 .. MaxCoord :
        NumWithin(d) >= j /\ \A e \in 0 .. d - 1 : NumWithin(e) < j

ResultItems == [i \in DOMAIN result |-> result[i][2]]

\* Every returned pair carries the distance of its item from the needle.
TrueDistances == \A i \in DOMAIN result : result[i][1] = FromNeedle(result[i][2])

Ascending == \A i \in 1 .. Len(result) - 1 : result[i][1] <= result[i + 1][1]

\* No item is returned more often than it is stored.
FromTheTree == \A x \in Item : Count(x, ResultItems) <= Count(x, StoredItems)

\* C1: on a tree that holds at least one item, find_nearest_neighbor
\* returns a stored item with its distance from the needle, and no stored
\* item is nearer (distances below Distance::max_value()).
C1_NearestIsMinimum ==
    (call.op = "nearest" /\ len >= 1) =>
        /\ ~panicked
        /\ Len(result) = 1
        /\ FromTheTree
        /\ TrueDistances
        /\ \A i \in DOMAIN StoredItems : result[1][1] <= FromNeedle(StoredItems[i])

\* C1 at work: on a tree of two layers of nodes the nearest item is nearer
\* than both the root and the child first walked into.
C1_Witness ==
    /\ call.op = "nearest"
    /\ ~panicked
    /\ depth = 2
    /\ Len(result) = 1
    /\ \A i \in 1 .. Len(nodes) : result[1][1] < FromNeedle(nodes[i].vantage_point)

\* C2: find_k_nearest_neighbors returns min(k, len()) pairs in ascending
\* order of distance, the j-th pair at the j-th smallest distance among the
\* stored items.  Stated of the calls that return.
C2_KNearestAscending ==
    (call.op = "k_nearest" /\ ~panicked) =>
        /\ Len(result) = Min(call.k, len)
        /\ FromTheTree
        /\ TrueDistances
        /\ \A j \in DOMAIN result : result[j][1] = KthSmallest(j)

\* C3: find_neighbors_within_radius returns exactly the stored items whose
\* distance from the needle is at most the threshold, each as often as it
\* is stored, with their distances, in ascending order of distance.
C3_RadiusExact ==
    call.op = "radius" =>
        /\ ~panicked
        /\ TrueDistances
        /\ Ascending
        /\ \A x \in Item :
              Count(x, ResultItems) =
                  IF FromNeedle(x) <= call.threshold THEN Count(x, StoredItems) ELSE 0

\* C3 at work: on a tree of two layers of nodes some items are returned, at
\* more than one distance, and some are left out.
C3_Witness ==
    /\ call.op = "radius"
    /\ ~panicked
    /\ depth = 2
    /\ Len(result) >= 2
    /\ Len(result) < len
    /\ result[1][1] < result[Len(result)][1]

\* C4: after a tree is built from n items and m more are added by insert
\* and extend calls, len() is n + m.
C4_LenCountsEverything == ~panicked => len = supplied

\* C4 at work: an insert and an extend have grown a tree enough to hold
\* vantage points as well as leaf items.
C4_Witness ==
    /\ ~panicked
    /\ Len(history) = 2
    /\ history[1].op = "insert"
    /\ history[2].op = "extend"
    /\ nodes # << >>
    /\ len = supplied

\* C5: VPTree::new with zero items completes, with no arithmetic underflow,
\* and every query on the tree it gives returns None or the empty list.
C5_EmptyBuildCompletes ==
    supplied = 0 =>
        /\ ~panicked
        /\ ~overflow_wraps
        /\ call.op \in QueryOps => result = << >>

\* C6: find_k_nearest_neighbors with k = 0 returns the empty list, without
\* panicking, on every tree.
C6_ZeroNearestIsEmpty ==
    (call.op = "k_nearest" /\ call.k = 0) => (~panicked /\ result = << >>)

\* The one answer that holds the single item of a one-item tree.
OnlyItem == << << FromNeedle(StoredItems[1]), StoredItems[1] >> >>

\* C7 as stated: a one-item tree returns its item for find_nearest_neighbor,
\* for find_k_nearest_neighbors with every k, and for
\* find_neighbors_within_radius with every radius.  Stated of the calls that
\* return.
C7_OneItemAlwaysReturned ==
    (len = 1 /\ call.op \in QueryOps /\ ~panicked) => result = OnlyItem

\* C7, amended: a one-item tree returns its item, with its distance d from
\* the needle, for find_nearest_neighbor, for find_k_nearest_neighbors with
\* every k >= 1 and for find_neighbors_within_radius with every radius >= d;
\* with a radius below d, find_neighbors_within_radius returns the empty
\* list.
C7_OneItemWithinReach ==
    (len = 1 /\ call.op \in QueryOps /\ ~(call.op = "k_nearest" /\ call.k = 0)) =>
        /\ ~panicked
        /\ result = IF call.op = "radius" /\ call.threshold < FromNeedle(StoredItems[1])
                    THEN << >>
                    ELSE OnlyItem

\* C7 at work: a one-item tree, asked for the items within exactly the
\* distance of its item, which is not the needle.
C7_Witness ==
    /\ len = 1
    /\ call.op = "radius"
    /\ call.threshold = FromNeedle(StoredItems[1])
    /\ call.threshold > 0
    /\ result = OnlyItem

\* C8: find_k_nearest_neighbors with k greater than len() returns every
\* stored item exactly once.
C8_LargeKReturnsAll ==
    (call.op = "k_nearest" /\ call.k > len) =>
        /\ ~panicked
        /\ Len(result) = len
        /\ TrueDistances
        /\ \A x \in Item : Count(x, ResultItems) = Count(x, StoredItems)

\* C8 at work: more items asked for than a tree of two layers of nodes
\* holds, at more than one distance.
C8_Witness ==
    /\ call.op = "k_nearest"
    /\ ~panicked
    /\ call.k > len
    /\ depth = 2
    /\ Len(result) = len
    /\ \E i, j \in DOMAIN result : result[i][1] # result[j][1]

\* The runs of rebalance() in the i-th call since construction.
RanIn(i) == history[i].rebuilds - (IF i = 1 THEN 0 ELSE history[i - 1].rebuilds)

\* An insert, an extend and a query, made one after another, are calls i,
\* i + 1 and i + 2.
InsertExtendQuery(i) ==
    /\ i + 2 <= Len(history)
    /\ history[i].op = "insert"
    /\ history[i + 1].op = "extend"
    /\ history[i + 2].op \in QueryOps

AskedAgain ==
    CASE call.op = "nearest" -> find_nearest_neighbor(Self, call.needle)
      [] call.op = "k_nearest" -> find_k_nearest_neighbors(Self, call.needle, call.k)
      [] call.op = "radius" -> find_neighbors_within_radius(Self, call.needle, call.threshold)

\* A query is answered in this step.
QueryStep == call = NoCall /\ call'.op \in QueryOps

\* C10: a query leaves nodes, leaves, leaf_size, decrementation_point and
\* depth as they were, and the same query made again returns the same
\* answer.
C10_QueriesChangeNothing ==
    /\ [][QueryStep => UNCHANGED tree]_vars
    /\ []((call.op \in QueryOps /\ ~panicked) => AskedAgain = Answer(result, FALSE))

\* C10 at work: a query has answered with several items on a tree of two
\* layers of nodes.
C10_Witness ==
    /\ call.op = "k_nearest"
    /\ ~panicked
    /\ depth = 2
    /\ Len(result) >= 2
    /\ Len(result) < len

\* Every answer a tree gives: to each needle, each k and each threshold.
AllAnswers(self) ==
    [needle \in Item |->
        [nearest |-> find_nearest_neighbor(self, needle),
         k_nearest |-> [k \in KValues |-> find_k_nearest_neighbors(self, needle, k)],
         radius |-> [threshold \in 0 .. MaxCoord |->
                        find_neighbors_within_radius(self, needle, threshold)]]]

\* extend has been called with no items: no query is answered or taken,
\* and nothing is supplied.
ExtendEmptyStep == call = NoCall /\ call' = NoCall /\ supplied' = supplied

\* C11: extend with an empty collection changes no query result: every
\* query returns the same (distance, item) sequence after it as before it.
C11_EmptyExtendChangesNoAnswer ==
    [][ExtendEmptyStep => AllAnswers(Self') = AllAnswers(Self)]_vars

\* C12: after new and after every insert and extend, nodes has exactly
\* 2^depth - 1 entries and the build has left exactly 2^depth slices in its
\* queue; a tree of at most FLAT_ARRAY_SIZE items has depth 0 and no nodes.
C12_NodesFillTheLayers ==
    ~panicked =>
        /\ Len(nodes) = Pow2(depth) - 1
        /\ Len(queue) = Pow2(depth)
        /\ len <= FLAT_ARRAY_SIZE => (depth = 0 /\ nodes = << >>)

\* C12 at work: a tree of two layers of nodes, three nodes and four slices.
C12_Witness ==
    /\ ~panicked
    /\ depth = 2
    /\ Len(nodes) = 3
    /\ Len(queue) = 4
    /\ len > FLAT_ARRAY_SIZE

\* ------------------------------------------------- depth by item count
\* The depth of trees too large to build item by item: only the number of
\* items handed over (supplied) and the depth computed from it are
\* followed, the items themselves are left out.
ItemCounts ==
    (0 .. MaxCount)
      \cup { Pow2(e) + c : e \in F32_MANTISSA_DIGITS - 2 .. MaxPower, c \in -2 .. 2 }

\* VPTree::new on supplied items, as far as depth goes.
InitDepth ==
    /\ supplied \in ItemCounts
    /\ depth = Depth(supplied)
    /\ nodes = << >>
    /\ leaves = << >>
    /\ queue = << >>
    /\ leaf_size = 0
    /\ decrementation_point = 0
    /\ panicked = FALSE
    /\ overflow_wraps = FALSE
    /\ call = NoCall
    /\ result = << >>
    /\ counted = FALSE
    /\ history = << >>
    /\ rebuilds = 0
    /\ added = << >>
    /\ walk = NoWalk
    /\ build = NoBuild

\* insert(item), as far as depth goes: rebalance computes depth anew from
\* the number of items.
InsertDepth ==
    /\ supplied + 1 \in ItemCounts
    /\ supplied' = supplied + 1
    /\ depth' = Depth(supplied + 1)
    /\ UNCHANGED << nodes, leaves, queue, leaf_size, decrementation_point, panicked,
                    overflow_wraps, call, result, counted, history, rebuilds, added,
                    walk, build >>

SpecDepth == InitDepth /\ [][InsertDepth]_vars

\* The smallest d >= 0 with n + 1 <= 2^d * (FLAT_ARRAY_SIZE + 1).
RECURSIVE SmallestDepthFrom(_, _)
SmallestDepthFrom(n, d) ==
    IF n + 1 <= Pow2(d) * (FLAT_ARRAY_SIZE + 1) THEN d ELSE SmallestDepthFrom(n, d + 1)

\* C15: for every item count n, the depth computed by new and by rebalance
\* is the smallest d >= 0 with n + 1 <= 2^d * (FLAT_ARRAY_SIZE + 1).
C15_DepthIsSmallest == ~panicked => depth = SmallestDepthFrom(supplied, 0)

\* The items stored in the subtree at tree position index: a node's vantage
\* point with the items of its two children, or the slice of a leaf group.
RECURSIVE SubtreeItems(_)
SubtreeItems(index) ==
    IF index < Len(nodes)
    THEN << nodes[index + 1].vantage_point >>
           \o SubtreeItems(2 * index + 1) \o SubtreeItems(2 * index + 2)
    ELSE queue[index - Len(nodes) + 1]

\* The distances from the vantage point of node index to the items of the
\* subtree at position child.
ChildDistances(index, child) ==
    { distance_calculator(nodes[index + 1].vantage_point, SubtreeItems(child)[i])
        : i \in DOMAIN SubtreeItems(child) }

NodeIndices == 0 .. Len(nodes) - 1

\* C13 as stated: for every node i with radius r, every item of the subtree
\* at 2i+1 is at distance <= r from the vantage point and every item of the
\* subtree at 2i+2 at distance > r, strictly.
C13_FarIsStrictlyOutside ==
    ~panicked =>
        \A i \in NodeIndices :
            /\ \A d \in ChildDistances(i, 2 * i + 1) : d <= nodes[i + 1].radius
            /\ \A d \in ChildDistances(i, 2 * i + 2) : d > nodes[i + 1].radius

\* C13, amended: every item of the subtree at 2i+1 is at distance <= r and
\* every item of the subtree at 2i+2 at distance >= r; the subtree at 2i+2
\* always holds an item at distance exactly r.
C13_FarIsNotInside ==
    ~panicked =>
        \A i \in NodeIndices :
            /\ \A d \in ChildDistances(i, 2 * i + 1) : d <= nodes[i + 1].radius
            /\ \A d \in ChildDistances(i, 2 * i + 2) : d >= nodes[i + 1].radius
            /\ nodes[i + 1].radius \in ChildDistances(i, 2 * i + 2)

\* C13 at work: in a tree of two layers of nodes the root has items at
\* exactly its radius on both sides, and items nearer and farther.
C13_Witness ==
    /\ ~panicked
    /\ depth = 2
    /\ nodes[1].radius \in ChildDistances(0, 1)
    /\ nodes[1].radius \in ChildDistances(0, 2)
    /\ \E d \in ChildDistances(0, 1) : d < nodes[1].radius
    /\ \E d \in ChildDistances(0, 2) : d > nodes[1].radius

\* The number of items in each slice the build left, in queue order.
GroupSizes == [j \in DOMAIN queue |-> Len(queue[j])]

GroupRange(j) == LeafRange(Self, Len(nodes) + j)

GroupIndices == 0 .. Pow2(depth) - 1

\* C18: after new (with at least one item) and after every insert and
\* extend, the ranges the queries compute for the leaf groups 0 .. 2^depth
\* - 1 lie within the leaf array, follow one another without gap or overlap
\* from its start to its end, and range j holds exactly the items of the
\* j-th slice the build left in its queue.
C18_RangesAreTheSlices ==
    (~panicked /\ len >= 1) =>
        /\ \A j \in GroupIndices :
              /\ ~GroupRange(j).overflowed
              /\ 0 <= GroupRange(j).start
              /\ GroupRange(j).start <= GroupRange(j).end
              /\ GroupRange(j).end <= Len(leaves)
              /\ SubSeq(leaves, GroupRange(j).start + 1, GroupRange(j).end) = queue[j + 1]
        /\ GroupRange(0).start = 0
        /\ \A j \in GroupIndices \ { 0 } : GroupRange(j).start = GroupRange(j - 1).end
        /\ GroupRange(Pow2(depth) - 1).end = Len(leaves)

\* C18 at work: four ranges, the first wider than the last, the last one
\* ending where the leaf array ends.
C18_Witness ==
    /\ ~panicked
    /\ depth = 2
    /\ decrementation_point \in 1 .. 3
    /\ GroupRange(0).end - GroupRange(0).start = leaf_size
    /\ GroupRange(3).end - GroupRange(3).start = leaf_size - 1
    /\ GroupRange(3).start > GroupRange(0).end
    /\ GroupRange(3).end = Len(leaves)

\* The three scalars of a tree.
Scalars(t) == << t.depth, t.leaf_size, t.decrementation_point >>

MutationStep == call = NoCall /\ call' = NoCall

\* C20: every insert and extend preserves the stored items: each item is
\* held in nodes and leaves after the call as often as before it, plus as
\* often as it is among the items added.
C20_RebuildKeepsTheItems ==
    [][MutationStep =>
          /\ ~panicked'
          /\ \A x \in Item :
                Count(x, StoredItems') = Count(x, StoredItems) + Count(x, added')]_vars

\* C20 at work: an extend has added two different items to a tree and left
\* one layer of nodes; one of the added items is now a vantage point.
C20_Witness ==
    /\ ~panicked
    /\ call = NoCall
    /\ Len(added) = 2
    /\ added[1] # added[2]
    /\ depth = 1
    /\ nodes[1].vantage_point = added[2]
    /\ len = supplied

\* ------------------------------------------------- src/src/lib.rs
\* The variant of src/src/lib.rs keeps one vector per leaf: there `leaves`
\* is a sequence of sequences of items, and the tree has nodes, leaves and
\* depth only.  rebuilds counts the runs of rebalance().

LibSelf == [nodes |-> nodes, leaves |-> leaves, depth |-> depth]

\* The loop of new() and, repeated word for word, of rebalance(): the front
\* slice of the queue gives its last item as vantage point, the others are
\* split at the middle by select_nth_unstable_by, and the two halves join
\* the back of the queue.  split_last_mut().unwrap() panics on an empty
\* slice, select_nth_unstable_by on an index that is not within the slice.
RECURSIVE LibBuildLoop(_, _, _)
LibBuildLoop(build_queue, build_nodes, nodes_len) ==
    IF Len(build_nodes) >= nodes_len
    THEN { [nodes |-> build_nodes, queue |-> build_queue, panicked |-> FALSE] }
    ELSE LET front == Head(build_queue)
             vantage_point == front[Len(front)]
             items == SubSeq(front, 1, Len(front) - 1)
             middle == Len(items) \div 2
         IN  IF front = << >> THEN { BuildPanic }
             ELSE IF items = << >> THEN { BuildPanic }
             ELSE UNION { LibBuildLoop(
                              Tail(build_queue)
                                \o << SubSeq(s, 1, middle), SubSeq(s, middle + 1, Len(s)) >>,
                              Append(build_nodes,
                                     Node(vantage_point,
                                          distance_calculator(vantage_point, s[middle + 1]))),
                              nodes_len)
                          : s \in SelectNth(vantage_point, items, middle) }

LibTree(tree_nodes, tree_leaves, tree_depth, tree_panicked) ==
    [nodes |-> tree_nodes, leaves |-> tree_leaves, depth |-> tree_depth,
     panicked |-> tree_panicked]

\* VPTree::new(items, distance_calculator) of lib.rs: every outcome.
LibNew(items) ==
    LET new_depth == Depth(Len(items))
    IN  { LibTree(b.nodes, b.queue, new_depth, b.panicked)
          : b \in LibBuildLoop(<< items >>, << >>, Pow2(new_depth) - 1) }

\* rebalance() of lib.rs: the vantage points are drained out of nodes and
\* every leaf is emptied into items by append, which leaves the emptied
\* vectors in self.leaves; the tree is built anew and the new leaves are
\* appended to self.leaves, behind the emptied ones.
LibRebalance(old_nodes, old_leaves) ==
    LET items == [i \in DOMAIN old_nodes |-> old_nodes[i].vantage_point]
                   \o Flatten(old_leaves)
        new_depth == Depth(Len(items))
    IN  { LibTree(b.nodes, [i \in DOMAIN old_leaves |-> << >>] \o b.queue, new_depth,
                  b.panicked)
          : b \in LibBuildLoop(<< items >>, << >>, Pow2(new_depth) - 1) }

\* The walk of insert from index down to the position of a leaf.
RECURSIVE LibDescend(_, _, _)
LibDescend(self, item, index) ==
    IF index >= Len(self.nodes) THEN index
    ELSE LET node == self.nodes[index + 1]
         IN  IF distance_calculator(item, node.vantage_point) < node.radius
             THEN LibDescend(self, item, index * 2 + 1)
             ELSE LibDescend(self, item, index * 2 + 2)

\* len() that counts the leaf vectors instead of their items.
LibLenCountsLeaves == Len(nodes) + Len(leaves)

\* len() of lib.rs
LibLen == Len(nodes) + Len(Flatten(leaves))

LibStoredItems == [i \in DOMAIN nodes |-> nodes[i].vantage_point] \o Flatten(leaves)

\* The items of one leaf are compared with the nearest neighbour so far; an
\* item that is nearer is noted by FLAT_ARRAY_SIZE * leaf + position +
\* nodes.len().
RECURSIVE LibScanLeaf(_, _, _, _, _)
LibScanLeaf(self, needle, leaf, inner_index, best) ==
    LET items == self.leaves[leaf + 1]
    IN  IF inner_index >= Len(items) THEN best
        ELSE LET distance == distance_calculator(needle, items[inner_index + 1])
             IN  LibScanLeaf(self, needle, leaf, inner_index + 1,
                             IF distance < best[1]
                             THEN << distance,
                                     leaf * FLAT_ARRAY_SIZE + inner_index + Len(self.nodes) >>
                             ELSE best)

\* The traversal of find_nearest_neighbor of lib.rs, in two operators: the
\* descent from index, and the loop that pops unexplored.  best is
\* (nearest_neighbors_distance, nearest_neighbor); crash tells that
\* self.leaves.get(..).unwrap() met no leaf.
RECURSIVE LibWalk(_, _, _, _, _)
RECURSIVE LibPopLoop(_, _, _, _)
LibWalk(self, needle, index, unexplored, best) ==
    IF index < Len(self.nodes)
    THEN LET node == self.nodes[index + 1]
             distance == distance_calculator(needle, node.vantage_point)
             nearer == IF distance < best[1] THEN << distance, index >> ELSE best
         IN  IF distance < node.radius
             THEN LibWalk(self, needle, index * 2 + 1,
                          Append(unexplored, << index * 2 + 2, node.radius - distance >>),
                          nearer)
             ELSE LibWalk(self, needle, index * 2 + 2,
                          Append(unexplored, << index * 2 + 1, distance - node.radius >>),
                          nearer)
    ELSE IF index - Len(self.nodes) >= Len(self.leaves)
    THEN [best |-> best, crash |-> TRUE]
    ELSE LibPopLoop(self, needle, unexplored,
                    LibScanLeaf(self, needle, index - Len(self.nodes), 0, best))

LibPopLoop(self, needle, unexplored, best) ==
    IF unexplored = << >> THEN [best |-> best, crash |-> FALSE]
    ELSE LET top == unexplored[Len(unexplored)]
             rest == SubSeq(unexplored, 1, Len(unexplored) - 1)
         IN  IF best[1] > top[2]
             THEN IF top[1] < Len(self.nodes)
                  THEN LibWalk(self, needle, top[1], rest, best)
                  ELSE IF top[1] - Len(self.nodes) >= Len(self.leaves)
                  THEN [best |-> best, crash |-> TRUE]
                  ELSE LibPopLoop(self, needle, rest,
                                  LibScanLeaf(self, needle, top[1] - Len(self.nodes), 0,
                                              best))
             ELSE LibPopLoop(self, needle, rest, best)

\* find_nearest_neighbor(needle) of lib.rs.  The noted position is read
\* back as leaf (position - nodes.len()) / FLAT_ARRAY_SIZE, place
\* (position - nodes.len()) % FLAT_ARRAY_SIZE; indexing outside self.leaves
\* or outside the leaf panics.
LibFindNearest(self, needle) ==
    LET walked == LibWalk(self, needle, 0, << >>, << DistanceMaxValue, 0 >>)
        distance == walked.best[1]
        nearest_neighbor == walked.best[2]
        position == nearest_neighbor - Len(self.nodes)
        leaf == position \div FLAT_ARRAY_SIZE
        place == position % FLAT_ARRAY_SIZE
    IN  IF walked.crash THEN Answer(<< >>, TRUE)
        ELSE IF ~(distance < DistanceMaxValue) THEN Answer(<< >>, FALSE)
        ELSE IF nearest_neighbor < Len(self.nodes)
        THEN Answer(<< << distance, self.nodes[nearest_neighbor + 1].vantage_point >> >>,
                    FALSE)
        ELSE IF leaf >= Len(self.leaves) THEN Answer(<< >>, TRUE)
        ELSE IF place >= Len(self.leaves[leaf + 1]) THEN Answer(<< >>, TRUE)
        ELSE Answer(<< << distance, self.leaves[leaf + 1][place + 1] >> >>, FALSE)

\* The inputs of new(): up to one leaf of items, and one item more, which
\* gives a node.
LibInputs == SeqsUpTo(FLAT_ARRAY_SIZE) \cup Canonical(FLAT_ARRAY_SIZE + 1)

\* The state after VPTree::new(items, distance_calculator) of lib.rs.
InitLib ==
    \E items \in LibInputs : \E t \in LibNew(items) :
        /\ nodes = t.nodes
        /\ leaves = t.leaves
        /\ depth = t.depth
        /\ panicked = t.panicked
        /\ supplied = Len(items)
        /\ rebuilds = 0
        /\ call = NoCall
        /\ result = << >>
        /\ added = << >>
        /\ queue = << >>
        /\ leaf_size = 0
        /\ decrementation_point = 0
        /\ overflow_wraps = FALSE
        /\ counted = FALSE
        /\ history = << >>
        /\ walk = NoWalk
        /\ build = NoBuild

\* insert(item) of lib.rs: the item is pushed on the leaf the descent ends
\* at, and a leaf that then holds more than FLAT_ARRAY_SIZE * 2 items has
\* the tree rebalanced.  The trees of the model grow up to DeepItems items.
LibInsert ==
    /\ Idle
    /\ LibLen + 1 <= DeepItems
    /\ \E item \in Item :
          LET leaf == LibDescend(LibSelf, item, 0) - Len(nodes)
              pushed == [leaves EXCEPT ![leaf + 1] = Append(@, item)]
          IN  /\ added' = << item >>
              /\ IF leaf >= Len(leaves)
                 THEN /\ panicked' = TRUE
                      /\ UNCHANGED << nodes, leaves, depth, rebuilds >>
                 ELSE IF Len(pushed[leaf + 1]) > FLAT_ARRAY_SIZE * 2
                 THEN \E t \in LibRebalance(nodes, pushed) :
                         /\ nodes' = t.nodes
                         /\ leaves' = t.leaves
                         /\ depth' = t.depth
                         /\ panicked' = t.panicked
                         /\ rebuilds' = rebuilds + 1
                 ELSE /\ leaves' = pushed
                      /\ UNCHANGED << nodes, depth, panicked, rebuilds >>
    /\ supplied' = supplied + 1
    /\ UNCHANGED << call, result, queue, leaf_size, decrementation_point, overflow_wraps,
                    counted, history, walk, build >>

\* find_nearest_neighbor(needle) of lib.rs takes &self.
LibFindNearestNeighbor ==
    \E needle \in Item : Query(NearestQuery(needle), LibFindNearest(LibSelf, needle))

NextLib ==
    \/ LibInsert
    \/ LibFindNearestNeighbor
    \/ Return

SpecLib == InitLib /\ [][NextLib]_vars

\* C16: in lib.rs, after a tree is built from n items and m more are
\* inserted, rebalance having run or not, len() is n + m, and neither the
\* build nor an insert has panicked (a panic is that of a query).
C16_LibLenCountsEverything == LibLen = supplied /\ (panicked => call # NoCall)

\* C16 at work: items were inserted after the build, the insert that pushed
\* a leaf past FLAT_ARRAY_SIZE * 2 items has rebalanced the tree, and another
\* item was inserted since.
C16_Witness ==
    /\ ~panicked
    /\ rebuilds = 1
    /\ Len(nodes) = 1
    /\ LibLen = DeepItems
    /\ supplied = DeepItems

\* C17: in lib.rs, find_nearest_neighbor on a tree that holds an item
\* returns without a panic one pair, of a stored item and its distance from
\* the needle, and no stored item is nearer.
C17_LibNearestIsMinimum ==
    (call.op = "nearest" /\ LibLen >= 1) =>
        /\ ~panicked
        /\ Len(result) = 1
        /\ \E i \in DOMAIN LibStoredItems : LibStoredItems[i] = result[1][2]
        /\ result[1][1] = FromNeedle(result[1][2])
        /\ \A i \in DOMAIN LibStoredItems : result[1][1] <= FromNeedle(LibStoredItems[i])

\* C30: in lib.rs, once an insert has had the tree rebalanced, self.leaves
\* holds exactly 2^depth leaf vectors, so that the leaf at tree position
\* nodes.len() + j is the j-th leaf of the rebuilt tree.
C30_LibLeavesFillTheLayer == rebuilds >= 1 => Len(leaves) = Pow2(depth)

\* --------------------------------------- distances up to the maximum
\* A needle as far from the item 0 as the Distance type can tell:
\* distance_calculator(FarNeedle, 0) is Distance::max_value().
FarNeedle == DistanceMaxValue

\* find_nearest_neighbor(&FarNeedle)
FindNearestFromAfar ==
    Query(NearestQuery(FarNeedle), find_nearest_neighbor(Self, FarNeedle))

NextFar ==
    \/ FindNearestNeighbor
    \/ FindNearestFromAfar
    \/ Return

SpecFar == Init /\ [][NextFar]_vars

\* C28: find_nearest_neighbor returns None if and only if the tree holds no
\* item, also when the distance function returns Distance::max_value().
C28_NoneOnlyWhenEmpty ==
    (call.op = "nearest" /\ ~panicked) => (result = << >> <=> len = 0)

\* ------------------------------------------- a query, step by step
\* The traversal shared by the three queries, one loop iteration at a time.
\* walk holds the query's locals: its arguments q, the tree position index,
\* the cursor position .. end into self.leaves while a leaf group is
\* scanned, the unexplored stack and the running answer acc.  Two records
\* are kept besides: log, the nodes visited, leaf groups scanned and stack
\* entries popped (entered or skipped), in order; and offered, the tree
\* positions of the items handed to the query's acceptance test, in order.
\* phase tells where the query stands: "descend" at the head of the outer
\* while loop, "scan" inside the for loop over a leaf group, "pop" at the
\* head of the inner loop, "done" once the query has returned, "panicked"
\* after a panic.

Event(kind, index, gap) == [kind |-> kind, index |-> index, gap |-> gap]

\* The body of the outer loop that continues at the near child and pushes
\* radius - distance wherever the needle lies.
DescendNearFirst(node, index, distance) ==
    [index |-> 2 * index + 1, pushed |-> << << 2 * index + 2, node.radius - distance >> >>]

\* The body of the outer loop that pushes both children.
DescendPushesBoth(node, index, distance) ==
    IF distance < node.radius
    THEN [index |-> 2 * index + 1,
          pushed |-> << << 2 * index + 1, node.radius - distance >>,
                        << 2 * index + 2, node.radius - distance >> >>]
    ELSE [index |-> 2 * index + 2,
          pushed |-> << << 2 * index + 2, distance - node.radius >>,
                        << 2 * index + 1, distance - node.radius >> >>]

\* The body of the outer loop that pushes the child it continues at.
DescendPushesSame(node, index, distance) ==
    IF distance < node.radius
    THEN [index |-> 2 * index + 1, pushed |-> << << 2 * index + 1, node.radius - distance >> >>]
    ELSE [index |-> 2 * index + 2, pushed |-> << << 2 * index + 2, distance - node.radius >> >>]

\* The end of the outer loop's body at node index, the needle being at
\* distance from the vantage point: the child the traversal continues at,
\* and what is pushed on unexplored.
Descend(node, index, distance) ==
    IF distance < node.radius
    THEN [index |-> 2 * index + 1, pushed |-> << << 2 * index + 2, node.radius - distance >> >>]
    ELSE [index |-> 2 * index + 2, pushed |-> << << 2 * index + 1, distance - node.radius >> >>]

\* What a query returns once the traversal has ended with acc.
Conclude(self, q, acc) ==
    CASE q.op = "nearest" ->
           IF acc.best[1] < DistanceMaxValue THEN Collect(self, << acc.best >>) ELSE << >>
      [] q.op = "k_nearest" -> Collect(self, acc.list)
      [] q.op = "radius" -> Collect(self, SortByDistance(acc.list))

Queries ==
    { NearestQuery(needle) : needle \in Item }
      \cup { KNearestQuery(needle, k) : needle \in Item, k \in KValues }
      \cup { RadiusQuery(needle, threshold) : needle \in Item, threshold \in 0 .. MaxCoord }

\* A query is called: its locals are initialised.
StartWalk ==
    /\ Idle
    /\ walk = NoWalk
    /\ \E q \in Queries : walk' = [NoWalk EXCEPT !.q = q, !.phase = "descend"]
    /\ UNCHANGED << tree, panicked, overflow_wraps, call, result, counted, history, rebuilds,
                    supplied, queue, added, build >>

\* The query panics: the call ends without an answer.
WalkPanics ==
    /\ panicked' = TRUE
    /\ call' = walk.q
    /\ result' = << >>

WalkGoesOn == UNCHANGED << panicked, call, result >>

WalkFrame ==
    UNCHANGED << tree, overflow_wraps, counted, history, rebuilds, supplied, queue, added,
                 build >>

\* The outer loop's body at a node: the vantage point is offered to the
\* query's acceptance test, the other child is pushed, the traversal
\* continues at the child on the needle's side.
VisitNode ==
    /\ ~panicked
    /\ walk.phase = "descend"
    /\ walk.index < Len(nodes)
    /\ LET node == nodes[walk.index + 1]
           distance == distance_calculator(walk.q.needle, node.vantage_point)
           considered == Consider(walk.q, walk.acc, walk.index, distance)
           next == Descend(node, walk.index, distance)
       IN  IF considered.panicked
           THEN /\ walk' = [walk EXCEPT !.phase = "panicked",
                                        !.offered = Append(@, walk.index)]
                /\ WalkPanics
           ELSE /\ walk' = [walk EXCEPT !.index = next.index,
                                        !.unexplored = @ \o next.pushed,
                                        !.acc = considered,
                                        !.log = Append(@, Event("visit", walk.index, distance)),
                                        !.offered = Append(@, walk.index)]
                /\ WalkGoesOn
    /\ WalkFrame

\* The traversal has come to a leaf group: its range of self.leaves is
\* computed and sliced.
EnterLeaf ==
    /\ ~panicked
    /\ walk.phase = "descend"
    /\ walk.index >= Len(nodes)
    /\ LET r == LeafRange(Self, walk.index)
       IN  IF r.overflowed \/ r.start > r.end \/ r.end > Len(leaves)
           THEN /\ walk' = [walk EXCEPT !.phase = "panicked"]
                /\ WalkPanics
           ELSE /\ walk' = [walk EXCEPT !.phase = IF r.start < r.end THEN "scan" ELSE "pop",
                                        !.position = r.start,
                                        !.end = r.end,
                                        !.log = Append(@, Event("scan", walk.index, 0))]
                /\ WalkGoesOn
    /\ WalkFrame

\* One turn of the for loop over the leaf group: the item is offered to the
\* query's acceptance test.
ScanItem ==
    /\ ~panicked
    /\ walk.phase = "scan"
    /\ LET at == walk.position + Len(nodes)
           considered == Consider(walk.q, walk.acc, at,
                                  distance_calculator(walk.q.needle,
                                                      leaves[walk.position + 1]))
       IN  IF considered.panicked
           THEN /\ walk' = [walk EXCEPT !.phase = "panicked", !.offered = Append(@, at)]
                /\ WalkPanics
           ELSE /\ walk' = [walk EXCEPT !.phase = IF walk.position + 1 < walk.end
                                                  THEN "scan" ELSE "pop",
                                        !.position = walk.position + 1,
                                        !.acc = considered,
                                        !.offered = Append(@, at)]
                /\ WalkGoesOn
    /\ WalkFrame

\* One turn of the inner loop: the top of unexplored is popped and either
\* entered, the traversal continuing there, or skipped.
PopUnexplored ==
    /\ ~panicked
    /\ walk.phase = "pop"
    /\ walk.unexplored # << >>
    /\ LET top == walk.unexplored[Len(walk.unexplored)]
           rest == SubSeq(walk.unexplored, 1, Len(walk.unexplored) - 1)
       IN  IF EnterPanics(walk.q, walk.acc)
           THEN /\ walk' = [walk EXCEPT !.phase = "panicked", !.unexplored = rest]
                /\ WalkPanics
           ELSE IF Enter(walk.q, walk.acc, top[2])
           THEN /\ walk' = [walk EXCEPT !.phase = "descend",
                                        !.index = top[1],
                                        !.unexplored = rest,
                                        !.log = Append(@, Event("enter", top[1], top[2]))]
                /\ WalkGoesOn
           ELSE /\ walk' = [walk EXCEPT !.unexplored = rest,
                                        !.log = Append(@, Event("skip", top[1], top[2]))]
                /\ WalkGoesOn
    /\ WalkFrame

\* unexplored is empty: the loops end and the query returns its answer.
EndWalk ==
    /\ ~panicked
    /\ walk.phase = "pop"
    /\ walk.unexplored = << >>
    /\ call' = walk.q
    /\ result' = Conclude(Self, walk.q, walk.acc)
    /\ walk' = [walk EXCEPT !.phase = "done"]
    /\ UNCHANGED panicked
    /\ WalkFrame

NextWalk ==
    \/ walk = NoWalk /\ Insert
    \/ walk = NoWalk /\ Extend
    \/ StartWalk
    \/ VisitNode
    \/ EnterLeaf
    \/ ScanItem
    \/ PopUnexplored
    \/ EndWalk
    \/ Return

SpecWalk == Init /\ [][NextWalk]_vars

\* Followed step by step, a query gives the answer it gives when taken as
\* one step.
WalkAgrees ==
    /\ (call # NoCall /\ ~panicked) => AskedAgain = Answer(result, FALSE)
    /\ (call # NoCall /\ panicked) => AskedAgain.panicked

\* The last entry of the walk's log, if any.
LastEvent == IF walk.log = << >> THEN Event("none", 0, 0) ELSE walk.log[Len(walk.log)]

\* C21: an entry popped from unexplored has just been skipped.  No item of
\* the subtree at that entry is nearer to the needle than the entry's gap,
\* and none would be taken by the query as its answer stands.
C21_SkippedSubtreeHoldsNothing ==
    LastEvent.kind = "skip" =>
        \A i \in DOMAIN SubtreeItems(LastEvent.index) :
            LET distance == distance_calculator(walk.q.needle,
                                                SubtreeItems(LastEvent.index)[i])
            IN  /\ distance >= LastEvent.gap
                /\ Consider(walk.q, walk.acc, 0, distance) = walk.acc

\* C21 at work: find_k_nearest_neighbors, asked for two items or more, has
\* skipped an entry whose subtree holds items.
C21_Witness ==
    /\ LastEvent.kind = "skip"
    /\ SubtreeItems(LastEvent.index) # << >>
    /\ walk.q.op = "k_nearest"
    /\ walk.q.k >= 2

\* A step of the outer loop's body at a node that does not panic.
VisitStep ==
    /\ walk.phase = "descend"
    /\ walk.index < Len(nodes)
    /\ walk'.phase = "descend"
    /\ walk' # walk

\* C22: at a visited node i, with d the needle's distance from the vantage
\* point: if d < radius the traversal continues at 2i+1 and pushes
\* (2i+2, radius - d), otherwise it continues at 2i+2 and pushes
\* (2i+1, d - radius); the gap pushed is not negative.
C22_DescentAndGap ==
    [][VisitStep =>
          LET i == walk.index
              radius == nodes[i + 1].radius
              d == distance_calculator(walk.q.needle, nodes[i + 1].vantage_point)
              top == walk'.unexplored[Len(walk'.unexplored)]
          IN  /\ Len(walk'.unexplored) = Len(walk.unexplored) + 1
              /\ SubSeq(walk'.unexplored, 1, Len(walk.unexplored)) = walk.unexplored
              /\ d < radius => walk'.index = 2 * i + 1 /\ top = << 2 * i + 2, radius - d >>
              /\ d >= radius => walk'.index = 2 * i + 2 /\ top = << 2 * i + 1, d - radius >>
              /\ top[2] >= 0]_vars

\* C22 at work: two nodes have been visited, the needle inside the radius
\* of one and outside the radius of the other, by a positive gap each time.
C22_Witness ==
    /\ walk.phase = "descend"
    /\ Len(walk.unexplored) = 2
    /\ walk.unexplored[1][1] = 1
    /\ walk.unexplored[2][1] = 6
    /\ walk.unexplored[1][2] > 0
    /\ walk.unexplored[2][2] > 0

\* The layer of a tree position: 0 for the root.
Level(index) == BitLen(index + 1) - 1

\* C23: during a query unexplored never holds more than depth entries, and
\* no two of its entries are of the same layer of the tree.
C23_StackWithinDepth ==
    /\ Len(walk.unexplored) <= depth
    /\ \A i, j \in DOMAIN walk.unexplored :
          i # j => Level(walk.unexplored[i][1]) # Level(walk.unexplored[j][1])

\* C23 at work: in a tree of two layers the traversal has come down to a
\* leaf group for the first time, with one entry pushed at each node.
C23_Witness ==
    /\ depth = 2
    /\ walk.phase = "scan"
    /\ Len(walk.unexplored) = depth

\* The nodes and leaf groups of the subtree at a tree position.
RECURSIVE SubtreeSlots(_)
SubtreeSlots(index) ==
    IF index < Len(nodes)
    THEN { index } \cup SubtreeSlots(2 * index + 1) \cup SubtreeSlots(2 * index + 2)
    ELSE { index }

Sibling(index) == IF index % 2 = 1 THEN index + 1 ELSE index - 1

\* Tree position p lies in the subtree at position top.
RECURSIVE Under(_, _)
Under(p, top) == IF p = top THEN TRUE ELSE IF p <= top THEN FALSE ELSE Under((p - 1) \div 2, top)

\* C25: whenever an entry is popped from unexplored, every node and leaf
\* group of the subtree at its sibling has been visited, or pruned with a
\* skipped entry, and none of them is visited later.
C25_SiblingIsDoneAtThePop ==
    \A i \in DOMAIN walk.log :
        walk.log[i].kind \in { "enter", "skip" } =>
            \A p \in SubtreeSlots(Sibling(walk.log[i].index)) :
                /\ \E j \in 1 .. i - 1 :
                      \/ walk.log[j].kind \in { "visit", "scan" } /\ walk.log[j].index = p
                      \/ walk.log[j].kind = "skip" /\ Under(p, walk.log[j].index)
                /\ \A j \in i + 1 .. Len(walk.log) :
                      walk.log[j].kind \in { "visit", "scan" } => walk.log[j].index # p

\* C25 at work: in a tree of two layers the entry of the root's other child
\* has been popped and entered after an entry below its sibling was
\* skipped, and the query has gone on to the end of that subtree.
C25_Witness ==
    /\ depth = 2
    /\ walk.phase = "pop"
    /\ walk.unexplored = << >>
    /\ \E i, j \in DOMAIN walk.log :
          /\ i < j
          /\ walk.log[i].kind = "skip"
          /\ walk.log[j].kind = "enter"
          /\ walk.log[j].index \in { 1, 2 }
          /\ j + 2 <= Len(walk.log)

\* A step of find_k_nearest_neighbors, asked for one item or more, that
\* hands an item to consider_item.
ConsiderItemStep ==
    /\ walk.q.op = "k_nearest"
    /\ walk.q.k >= 1
    /\ walk'.q = walk.q
    /\ Len(walk'.offered) = Len(walk.offered) + 1

AscendingList(list) == \A i \in 1 .. Len(list) - 1 : list[i][1] <= list[i + 1][1]

\* The distance from the needle of the item handed over last.
OfferedDistance(w) ==
    distance_calculator(w.q.needle, ItemAt(Self, w.offered[Len(w.offered)]))

\* C26: in find_k_nearest_neighbors with k >= 1 the candidate list never
\* holds more than k entries; once it holds k it is in ascending order of
\* distance, and after every later consider_item call it still holds k
\* entries in ascending order; a later candidate changes the list only if
\* its distance is strictly less than that of the last entry.
C26_ListFullMeansSorted ==
    /\ []((walk.q.op = "k_nearest" /\ walk.q.k >= 1) =>
             /\ Len(walk.acc.list) <= walk.q.k
             /\ Len(walk.acc.list) = walk.q.k => AscendingList(walk.acc.list))
    /\ [][(ConsiderItemStep /\ Len(walk.acc.list) = walk.q.k) =>
             /\ Len(walk'.acc.list) = walk.q.k
             /\ walk'.acc.list # walk.acc.list
                  => OfferedDistance(walk') < walk.acc.list[walk.q.k][1]
             /\ ~panicked']_vars

\* C26 at work: the list of a query for two items is full, and the item
\* handed over last, after more than two others, has found its place as
\* the first of the list.
C26_Witness ==
    /\ walk.q.op = "k_nearest"
    /\ walk.q.k = 2
    /\ Len(walk.acc.list) = 2
    /\ Len(walk.offered) > 3
    /\ walk.acc.list[1][2] = walk.offered[Len(walk.offered)]
    /\ walk.acc.list[1][1] < walk.acc.list[2][1]

\* A query that has been called runs on: its loops take their next step.
WalkSteps == VisitNode \/ EnterLeaf \/ ScanItem \/ PopUnexplored \/ EndWalk

SpecWalkFair == SpecWalk /\ WF_vars(WalkSteps)

\* The entries of the walk's log for the nodes visited and the leaf groups
\* scanned.
Visits == { i \in DOMAIN walk.log : walk.log[i].kind \in { "visit", "scan" } }

\* No node is visited twice and no leaf group scanned twice.
VisitedOnce == \A i, j \in Visits : i # j => walk.log[i].index # walk.log[j].index

NoRepeat(s) == \A i, j \in DOMAIN s : i # j => s[i] # s[j]

\* C24: every query comes to an end: it returns, unexplored being empty,
\* no node having been visited twice, no leaf group scanned twice and no
\* item handed to the query's acceptance test twice.  (A call that panics
\* has come to an end as well.)
C24_EveryQueryEnds ==
    /\ [](walk.phase = "done" =>
            /\ walk.unexplored = << >>
            /\ VisitedOnce
            /\ NoRepeat(walk.offered))
    /\ (walk.phase # "idle") ~> (walk.phase = "done" \/ panicked)

\* C24 at work: a query on a tree of two layers is about to return, having
\* visited the three nodes, scanned the four leaf groups and been through
\* every item.
C24_Witness ==
    /\ depth = 2
    /\ walk.phase = "done"
    /\ walk.unexplored = << >>
    /\ Cardinality(Visits) = Len(nodes) + Pow2(depth)
    /\ Len(walk.offered) = len
    /\ len = DeepItems

\* SortByDistance gives what the insertion sort gives, on every list a
\* query keeps.
SortIsInsertionSort == SortByDistance(walk.acc.list) = InsertionSort(walk.acc.list)

\* ------------------------------------------- the build, turn by turn
\* new and rebalance followed one turn of their loop at a time, for item
\* counts up to MaxCount.  How a slice is split depends on the lengths
\* alone, never on the distances, so the items are all the same point: the
\* slices keep their lengths and select_nth_unstable_by has nothing to
\* reorder.  build holds the locals of the build: ideal_size_low stands for
\* rebalance's ideal_size as well.
Same(n) == [i \in 1 .. n |-> 0]

\* Whether this build has overflow checks is settled at the first overflow.
WrapChoices == IF overflow_wraps THEN { TRUE } ELSE BOOLEAN

\* VPTree::new up to its loop (lines 37-59), on n items.
StartNew(n, wraps) ==
    LET new_depth == Depth(n)
        leaves_len == Pow2(new_depth)
        nodes_len == leaves_len - 1
        new_leaf_size == n \div leaves_len
        ideal_size_low == nodes_len + leaves_len * (new_leaf_size - 1)
        ideal_size_high == nodes_len + leaves_len * new_leaf_size
        over == new_leaf_size = 0 \/ n < ideal_size_low
    IN  /\ depth = new_depth
        /\ leaf_size = new_leaf_size
        /\ decrementation_point = n - ideal_size_low
        /\ nodes = << >>
        /\ leaves = << >>
        /\ queue = << Same(n) >>
        /\ panicked = (over /\ ~wraps)
        /\ overflow_wraps = (over /\ wraps)
        /\ build = [op |-> "new", phase |-> "loop",
                    ideal_size_low |-> IF ideal_size_low < 0 THEN Huge ELSE ideal_size_low,
                    ideal_size_high |-> ideal_size_high, level |-> 0,
                    nodes_len |-> nodes_len, overflowed |-> over]

InitSizes ==
    /\ supplied \in 0 .. MaxCount
    /\ \E wraps \in BOOLEAN : StartNew(supplied, wraps)
    /\ call = NoCall
    /\ result = << >>
    /\ counted = FALSE
    /\ history = << >>
    /\ rebuilds = 0
    /\ added = << >>
    /\ walk = NoWalk

\* What one turn of the loop computes before it splits the front slice
\* (lines 61-69 of new, 135-150 of rebalance).
Turn ==
    LET halve == is_power_of_two(Len(queue))
        low == IF halve THEN HalveIdeal(build.ideal_size_low) ELSE build.ideal_size_low
        level == IF halve /\ build.op = "rebalance" THEN build.level + 1 ELSE build.level
        high == IF build.op = "new"
                THEN IF halve THEN HalveIdeal(build.ideal_size_high)
                     ELSE build.ideal_size_high
                ELSE IF low = Huge \/ level > depth THEN Huge
                     ELSE low + Pow2(depth - level)
        empty == IF queue = << >> THEN TRUE ELSE Head(queue) = << >>
        items_len == IF empty THEN 0 ELSE Len(Head(queue)) - 1
        underflow == low = Huge \/ items_len < low
        split_point == IF underflow THEN high
                       ELSE IF high = Huge THEN items_len - low
                       ELSE Min(items_len - low, high)
        over == \/ underflow
                \/ halve /\ build.ideal_size_low = 0
                \/ halve /\ build.op = "new" /\ build.ideal_size_high = 0
                \/ level > depth
    IN  [low |-> low, high |-> high, level |-> level, empty |-> empty,
         items_len |-> items_len, underflow |-> underflow, split_point |-> split_point,
         over |-> over,
         panics |-> \/ empty
                    \/ level > depth
                    \/ split_point = Huge
                    \/ split_point >= items_len]

BuildFrame ==
    UNCHANGED << leaves, leaf_size, decrementation_point, depth, call, result, counted,
                 history, rebuilds, supplied, added, walk >>

\* One turn of the while loop of new (lines 60-94) or of rebalance (lines
\* 134-167).
BuildTurn ==
    /\ ~panicked
    /\ build.phase = "loop"
    /\ Len(nodes) < build.nodes_len
    /\ \E wraps \in WrapChoices :
          LET turn == Turn
              items == Same(turn.items_len)
          IN  IF turn.panics \/ (turn.over /\ ~wraps)
              THEN /\ panicked' = TRUE
                   /\ build' = [build EXCEPT !.overflowed = @ \/ turn.over]
                   /\ UNCHANGED << nodes, queue, overflow_wraps >>
              ELSE /\ queue' = Tail(queue) \o
                                  << SubSeq(items, 1, turn.split_point),
                                     SubSeq(items, turn.split_point + 1, Len(items)) >>
                   /\ nodes' = Append(nodes, Node(0, 0))
                   /\ build' = [build EXCEPT !.ideal_size_low = turn.low,
                                             !.ideal_size_high = turn.high,
                                             !.level = turn.level,
                                             !.overflowed = @ \/ turn.over]
                   /\ overflow_wraps' = (overflow_wraps \/ turn.over)
                   /\ UNCHANGED panicked
    /\ BuildFrame

\* The loop is left: the queue is flattened into leaves (lines 95-106 of
\* new, 168-184 of rebalance, which also finds decrementation_point).
BuildEnd ==
    /\ ~panicked
    /\ build.phase = "loop"
    /\ Len(nodes) >= build.nodes_len
    /\ leaves' = Flatten(queue)
    /\ decrementation_point' =
          IF build.op = "new" THEN decrementation_point
          ELSE FirstShort(queue, leaf_size, Pow2(depth))
    /\ build' = [build EXCEPT !.phase = "done"]
    /\ UNCHANGED << nodes, queue, leaf_size, depth, panicked, overflow_wraps, call, result,
                    counted, history, rebuilds, supplied, added, walk >>

\* insert(item), or extend with no item, up to the loop of rebalance (lines
\* 109-133): the nodes and the leaves are drained into one vector.
StartRebalance ==
    /\ ~panicked
    /\ build.phase = "done"
    /\ \E more \in 0 .. 1 : \E wraps \in WrapChoices :
          LET n == Len(nodes) + Len(leaves) + more
              new_depth == Depth(n)
              leaves_len == Pow2(new_depth)
              nodes_len == leaves_len - 1
              short == n < nodes_len
              new_leaf_size == IF short THEN 0 ELSE CeilDiv(n - nodes_len, leaves_len)
              ideal_size == nodes_len + (nodes_len + 1) * (new_leaf_size - 1)
              over == short \/ new_leaf_size = 0
          IN  /\ n <= MaxCount
              /\ supplied' = n
              /\ depth' = new_depth
              /\ leaf_size' = new_leaf_size
              /\ nodes' = << >>
              /\ leaves' = << >>
              /\ queue' = << Same(n) >>
              /\ panicked' = (short \/ (over /\ ~wraps))
              /\ overflow_wraps' = (overflow_wraps \/ (over /\ wraps))
              /\ build' = [op |-> "rebalance", phase |-> "loop",
                           ideal_size_low |-> IF ideal_size < 0 THEN Huge ELSE ideal_size,
                           ideal_size_high |-> 0, level |-> 0,
                           nodes_len |-> nodes_len, overflowed |-> over]
    /\ rebuilds' = rebuilds
    /\ UNCHANGED << decrementation_point, call, result, counted, history, added, walk >>

NextSizes ==
    \/ BuildTurn
    \/ BuildEnd
    \/ StartRebalance

SpecSizes == InitSizes /\ [][NextSizes]_vars

\* The turn-by-turn build leaves what New and Rebalance leave, on the
\* counts small enough for both.
SizesAgree ==
    (build.phase = "done" /\ supplied <= DeepItems) =>
        \E t \in (IF build.op = "new" THEN New(Same(supplied))
                  ELSE Rebalance(<< >>, Same(supplied))) :
            /\ t.overflowed = build.overflowed
            /\ ~t.panicked
            /\ t.nodes = nodes
            /\ t.queue = queue
            /\ t.leaves = leaves
            /\ Scalars(t) = << depth, leaf_size, decrementation_point >>

\* C27: whenever new or rebalance is given at least one item, at every
\* turn of the loop the slice popped from the queue is not empty,
\* items.len() - ideal_size_low (ideal_size in rebalance) does not go below
\* zero and split_point is an index of the items left without the vantage
\* point; and no slice in the queue is ever shorter than leaf_size - 1.
C27_BuildIsSafe ==
    supplied >= 1 =>
        /\ (build.phase = "loop" /\ Len(nodes) < build.nodes_len) =>
              /\ ~Turn.empty
              /\ ~Turn.underflow
              /\ Turn.split_point # Huge
              /\ Turn.split_point < Turn.items_len
        /\ \A j \in DOMAIN queue : Len(queue[j]) >= leaf_size - 1

\* C27 at work: rebalance has built three layers of nodes or more, and one
\* of the slices it leaves has exactly leaf_size - 1 items.
C27_Witness ==
    /\ supplied >= 1
    /\ depth >= 3
    /\ build.op = "rebalance"
    /\ build.phase = "done"
    /\ Len(nodes) = build.nodes_len
    /\ \E j \in DOMAIN queue : Len(queue[j]) = leaf_size - 1

\* --------------------------------- items at pairwise distinct distances
\* Trees of items that all differ, taken from a range wide enough for two
\* layers of nodes: a needle at an end of the range is at a different
\* distance from each of them.  A k-nearest call is followed by a radius
\* call with the same needle and the distance of the last entry returned.
WidePoints == 0 .. DeepItems - 1

SeqsOver(points, n) == UNION { [1 .. m -> points] : m \in 0 .. n }

Injective(s) == \A i, j \in DOMAIN s : i # j => s[i] # s[j]

\* The items of a set, in ascending order.
RECURSIVE AscendingSeq(_)
AscendingSeq(points) ==
    IF points = { } THEN << >>
    ELSE LET first == CHOOSE x \in points : \A y \in points : x <= y
         IN  << first >> \o AscendingSeq(points \ { first })

\* The inputs of new: few items in any order; of more items, the last one
\* (the root's vantage point) and the others in ascending order, which
\* select_nth_unstable_by reorders.
DistinctInputs ==
    { s \in SeqsOver(WidePoints, Min(MaxItems, FLAT_ARRAY_SIZE)) : s # << >> /\ Injective(s) }
      \cup UNION { { Append(AscendingSeq(points \ { last }), last) : last \in points }
                   : points \in { c \in SUBSET WidePoints :
                                    Cardinality(c) \in (FLAT_ARRAY_SIZE + 1 .. MaxItems)
                                                          \cup { DeepItems } } }

InitDistinct == InitFrom(DistinctInputs, FALSE)

\* insert(item) of an item the tree does not hold yet.
InsertDistinct ==
    /\ Idle
    /\ len + 1 <= MaxItems
    /\ \E item \in WidePoints :
          /\ \A i \in DOMAIN StoredItems : StoredItems[i] # item
          /\ RunRebalance(<< item >>)
          /\ added' = << item >>
    /\ supplied' = supplied + 1
    /\ Record("insert", 1)
    /\ UNCHANGED << call, result, walk, build >>

\* find_k_nearest_neighbors(needle, k), k from 1 to more than the tree holds
FindKNearestAmongDistinct ==
    \E needle \in WidePoints : \E k \in 1 .. DeepItems + 1 :
        Query(KNearestQuery(needle, k), find_k_nearest_neighbors(Self, needle, k))

\* find_neighbors_within_radius(needle, r), called with the needle of the
\* k-nearest call that has just answered and r the distance of its last
\* entry.
FindWithinLastRadius ==
    /\ ~panicked
    /\ call.op = "k_nearest"
    /\ result # << >>
    /\ LET threshold == result[Len(result)][1]
           answer == find_neighbors_within_radius(Self, call.needle, threshold)
       IN  /\ call' = RadiusQuery(call.needle, threshold)
           /\ result' = answer.pairs
           /\ panicked' = answer.panicked
    /\ Record("radius", 0)
    /\ added' = << >>
    /\ UNCHANGED << tree, overflow_wraps, supplied, queue, walk, build >>

NextDistinct ==
    \/ InsertDistinct
    \/ FindKNearestAmongDistinct
    \/ FindWithinLastRadius
    \/ Return

SpecDistinct == InitDistinct /\ [][NextDistinct]_vars

\* The needle of the call is at a different distance from every stored item.
DistinctDistances ==
    \A i, j \in DOMAIN StoredItems :
        i # j => FromNeedle(StoredItems[i]) # FromNeedle(StoredItems[j])

RadiusAfterKNearest == call.op = "k_nearest" /\ call'.op = "radius"

\* C29: when the needle's distances to the stored items are pairwise
\* distinct and 1 <= k <= len(), find_neighbors_within_radius with the
\* distance of the last entry of find_k_nearest_neighbors(needle, k) returns
\* the very sequence of pairs that find_k_nearest_neighbors returned.
C29_RadiusOfLastGivesTheSame ==
    [][(RadiusAfterKNearest /\ DistinctDistances /\ 1 <= call.k /\ call.k <= len)
          => (result' = result /\ ~panicked')]_vars

\* C29 at work: on a tree with nodes, the radius call that followed a
\* k-nearest call has answered with more than one pair and fewer than the
\* tree holds, the needle being at distinct distances from the items.
C29_Witness ==
    /\ depth >= 2
    /\ call.op = "radius"
    /\ ~panicked
    /\ DistinctDistances
    /\ Len(result) >= 2
    /\ Len(result) < len
    /\ result[Len(result)][1] = call.threshold

====
